---- MODULE Spec2Model ----
(***************************************************************************)
(* Model of dgllife/model/model_zoo/gcn_link_predictor.py: the GCN encoder *)
(* (a stack of GraphConv layers) and the GCNLinkPredictor scoring head (a  *)
(* stack of Linear layers followed by a sigmoid).                          *)
(*                                                                         *)
(* Tensors are records [rows, cols, data] holding integer entries; the     *)
(* sigmoid returns a fixed-point value in units of 1/SigScale.  Random     *)
(* initialisation and random dropout masks are nondeterministic choices    *)
(* from bounded families indexed by a seed.                                *)
(***************************************************************************)
EXTENDS Integers, Sequences, FiniteSets, TLC

\* ---------------------------------------------------------------- bounds
MaxWidth == 2
MaxLayers == 3
MaxRows == 2

\* the fixed-point unit of a sigmoid output: SigScale stands for 1.0
SigScale == 1000

Widths == 1..MaxWidth
\* num_layers is not validated, so zero and negative values are constructor inputs
LayerCounts == -1..MaxLayers
RowCounts == 1..MaxRows
\* indices of the sampled initialisations, inputs, graphs and dropout masks;
\* construction draws initialisation InitSeed, reset_parameters any of Seeds
InitSeed == 0
Seeds == {0, 1}
InputSeeds == {0, 1}
Shifts == {0, 1}
MaskSeeds == {0, 1, 2}
\* dropout probabilities <<numerator, denominator>>: 0 and 1/2
Rates == {<<0, 1>>, <<1, 2>>}

VARIABLES gcn, gcn_args, gcn_call, pred, pred_args, pred_call

vars == <<gcn, gcn_args, gcn_call, pred, pred_args, pred_call>>

\* ---------------------------------------------------------------- tensors
\* the result of a tensor operation that raised (shape mismatch)
ERR == [rows |-> -1, cols |-> -1, data |-> <<>>]

Tensor(r, c, d) == [rows |-> r, cols |-> c, data |-> d]

RECURSIVE Dot(_, _, _)
Dot(a, b, n) == IF n = 0 THEN 0 ELSE Dot(a, b, n - 1) + a[n] * b[n]

\* a caller-supplied feature matrix
InputEntry(seed, i, j) == ((3 * seed + 2 * i + j) % 4) - 1
InputTensor(seed, r, c) ==
    Tensor(r, c, [i \in 1..r |-> [j \in 1..c |-> InputEntry(seed, i, j)]])

\* a framework-default random initialisation of a weight matrix / bias vector
WeightEntry(seed, i, j) == ((seed + i + 2 * j) % 3) - 1
InitWeight(seed, r, c) == [i \in 1..r |-> [j \in 1..c |-> WeightEntry(seed, i, j)]]
InitBias(seed, n) == [j \in 1..n |-> ((seed + j) % 3) - 1]
ZeroBias(n) == [j \in 1..n |-> 0]

\* ---------------------------------------------------------------- primitives
\* F.relu
Relu(x) ==
    IF x = ERR THEN ERR
    ELSE Tensor(x.rows, x.cols,
               [i \in 1..x.rows |-> [j \in 1..x.cols |->
                   IF x.data[i][j] > 0 THEN x.data[i][j] ELSE 0]])

\* one Bernoulli keep-mask entry of the k-th dropout call of a forward pass
MaskBit(mseed, k, i, j) ==
    CASE mseed = 0 -> 1
      [] mseed = 1 -> 0
      [] OTHER -> (k + i + j) % 2

\* faulty variant: dropout that ignores the training flag (F.dropout with its default)
Dropout_always(p, training, x, mseed, k) ==
    IF x = ERR THEN ERR
    ELSE IF p[1] = 0 THEN x
    ELSE Tensor(x.rows, x.cols,
               [i \in 1..x.rows |-> [j \in 1..x.cols |->
                   (x.data[i][j] * MaskBit(mseed, k, i, j) * p[2]) \div (p[2] - p[1])]])

\* nn.Dropout(p): identity outside training mode, otherwise zeroes the masked
\* entries and scales the kept ones by 1/(1-p)
Dropout(p, training, x, mseed, k) ==
    IF x = ERR THEN ERR
    ELSE IF ~training \/ p[1] = 0 THEN x
    ELSE Tensor(x.rows, x.cols,
               [i \in 1..x.rows |-> [j \in 1..x.cols |->
                   (x.data[i][j] * MaskBit(mseed, k, i, j) * p[2]) \div (p[2] - p[1])]])

\* torch.sigmoid on one entry, rounded to 1/SigScale; saturates at both ends
SigmoidPos(v) ==
    CASE v = 0 -> 500
      [] v = 1 -> 731
      [] v = 2 -> 881
      [] v = 3 -> 953
      [] v = 4 -> 982
      [] v = 5 -> 993
      [] v = 6 -> 998
      [] v = 7 -> 999
      [] OTHER -> SigScale
SigmoidEntry(v) == IF v >= 0 THEN SigmoidPos(v) ELSE SigScale - SigmoidPos(-v)
Sigmoid(x) ==
    IF x = ERR THEN ERR
    ELSE Tensor(x.rows, x.cols,
               [i \in 1..x.rows |-> [j \in 1..x.cols |->
                   SigmoidEntry(x.data[i][j])]])

\* faulty variant: the difference of the two inputs instead of their product
Mul_difference(a, b) ==
    IF a = ERR \/ b = ERR \/ a.rows # b.rows \/ a.cols # b.cols THEN ERR
    ELSE Tensor(a.rows, a.cols,
               [i \in 1..a.rows |-> [j \in 1..a.cols |->
                   a.data[i][j] - b.data[i][j]]])

\* x_i * x_j
Mul(a, b) ==
    IF a = ERR \/ b = ERR \/ a.rows # b.rows \/ a.cols # b.cols THEN ERR
    ELSE Tensor(a.rows, a.cols,
               [i \in 1..a.rows |-> [j \in 1..a.cols |->
                   a.data[i][j] * b.data[i][j]]])

\* nn.Linear(in_features, out_features): weight is out x in, y = x W^T + b
NewLinear(nin, nout, seed) ==
    [in_features |-> nin, out_features |-> nout,
     weight |-> InitWeight(seed, nout, nin), bias |-> InitBias(seed, nout)]

Linear(lin, x) ==
    IF x = ERR \/ x.cols # lin.in_features THEN ERR
    ELSE Tensor(x.rows, lin.out_features,
               [i \in 1..x.rows |-> [j \in 1..lin.out_features |->
                   Dot(x.data[i], lin.weight[j], lin.in_features) + lin.bias[j]]])

\* a graph on nodes 1..n in which node u has the single out-edge u -> u+shift
\* (mod n); every in- and out-degree is 1, so GraphConv's symmetric
\* normalisation is exactly 1
Graph(shift, n) == [n |-> n, edges |-> {<<u, ((u + shift - 1) % n) + 1>> : u \in 1..n}]

\* dgl GraphConv(in_feats, out_feats, activation): weight is in x out, bias zero
NewGraphConv(nin, nout, act, seed) ==
    [in_feats |-> nin, out_feats |-> nout, activation |-> act,
     weight |-> InitWeight(seed, nin, nout), bias |-> ZeroBias(nout)]

RECURSIVE SumOver(_, _, _)
SumOver(S, x, j) ==
    IF S = {} THEN 0
    ELSE LET u == CHOOSE u \in S : TRUE IN x.data[u][j] + SumOver(S \ {u}, x, j)

Aggregate(g, x) ==
    Tensor(x.rows, x.cols,
               [i \in 1..x.rows |-> [j \in 1..x.cols |->
                   SumOver({u \in 1..g.n : <<u, i>> \in g.edges}, x, j)]])

WeightColumn(layer, j) == [k \in 1..layer.in_feats |-> layer.weight[k][j]]

\* the linear projection of the aggregated features a, plus the bias
Project(layer, a) ==
    Tensor(a.rows, layer.out_feats,
               [i \in 1..a.rows |-> [j \in 1..layer.out_feats |->
                   Dot(a.data[i], WeightColumn(layer, j), layer.in_feats) + layer.bias[j]]])

Activate(layer, h) == IF layer.activation = "relu" THEN Relu(h) ELSE h

GraphConv(layer, g, x) ==
    IF x = ERR \/ x.rows # g.n \/ x.cols # layer.in_feats THEN ERR
    ELSE Activate(layer, Project(layer, Aggregate(g, x)))

\* ---------------------------------------------------------------- GCN
\* range(n) of Python: empty when n <= 0
Range(n) == IF n > 0 THEN 1..n ELSE {}

\* faulty variant: the hidden-layer loop runs once too often
GCN_layers_extra_hidden(in_feats, n_hidden, out_feats, num_layers, seed) ==
    LET hidden == [i \in Range(num_layers - 1) |->
                      NewGraphConv(n_hidden, n_hidden, "relu", seed + i)]
    IN <<NewGraphConv(in_feats, n_hidden, "relu", seed)>>
       \o hidden
       \o <<NewGraphConv(n_hidden, out_feats, "none", seed + 1)>>

\* GCN.__init__: self.layers
GCN_layers(in_feats, n_hidden, out_feats, num_layers, seed) ==
    LET hidden == [i \in Range(num_layers - 2) |->
                      NewGraphConv(n_hidden, n_hidden, "relu", seed + i)]
    IN <<NewGraphConv(in_feats, n_hidden, "relu", seed)>>
       \o hidden
       \o <<NewGraphConv(n_hidden, out_feats, "none", seed + 1)>>

GCN_init(in_feats, n_hidden, out_feats, num_layers, dropout, seed) ==
    [layers |-> GCN_layers(in_feats, n_hidden, out_feats, num_layers, seed),
     dropout |-> dropout,
     training |-> TRUE]

\* faulty variant: the reset rebuilds the layer and loses its activation
GraphConv_reset_rebuild(layer, seed) ==
    NewGraphConv(layer.in_feats, layer.out_feats, "none", seed)

\* GraphConv.reset_parameters: new weight values, same shape
GraphConv_reset(layer, seed) ==
    [layer EXCEPT !.weight = InitWeight(seed, layer.in_feats, layer.out_feats),
                  !.bias = ZeroBias(layer.out_feats)]

GCN_reset(m, seed) ==
    [m EXCEPT !.layers = [i \in 1..Len(m.layers) |-> GraphConv_reset(m.layers[i], seed + i)]]

\* A forward pass threads a record [x, trace]: x is the tensor held by the
\* local variable, trace the primitive calls made so far, in order, each as
\* <<primitive, index of the loop iteration or layer it belongs to>>.
Start(x, first) == [x |-> x, trace |-> first]

\* self.dropout(feats)
ApplyDropout(m, s, mseed, k) ==
    [x |-> Dropout(m.dropout, m.training, s.x, mseed, k),
     trace |-> Append(s.trace, <<"dropout", k>>)]

\* layer(g, feats); the layer applies its own activation, when it has one
ApplyGraphConv(m, i, g, s) ==
    [x |-> GraphConv(m.layers[i], g, s.x),
     trace |-> s.trace \o (IF m.layers[i].activation = "relu"
                              THEN <<(<<"conv", i>>), (<<"relu", i>>)>>
                              ELSE <<(<<"conv", i>>)>>)]

\* faulty variant: dropout also before the first layer
GCN_iter_dropout_first(m, i, g, s, mseed) ==
    ApplyGraphConv(m, i, g, ApplyDropout(m, s, mseed, i))

\* one iteration of the loop of GCN.forward, i counted from 1
GCN_iter(m, i, g, s, mseed) ==
    ApplyGraphConv(m, i, g, IF i # 1 THEN ApplyDropout(m, s, mseed, i) ELSE s)

\* the first i iterations of the loop of GCN.forward
RECURSIVE GCN_loop(_, _, _, _, _)
GCN_loop(m, i, g, s, mseed) ==
    IF i = 0 THEN s ELSE GCN_iter(m, i, g, GCN_loop(m, i - 1, g, s, mseed), mseed)

\* faulty variant: the loop stops before the output layer
GCN_forward_run_skip_last(m, g, feats, mseed) ==
    GCN_loop(m, Len(m.layers) - 1, g, Start(feats, <<>>), mseed)

\* GCN.forward
GCN_forward_run(m, g, feats, mseed) ==
    GCN_loop(m, Len(m.layers), g, Start(feats, <<>>), mseed)

\* ---------------------------------------------------------------- GCNLinkPredictor
\* faulty variant: the hidden layers take in_channels inputs
Pred_lins_hidden_from_input(in_channels, hidden_channels, num_layers, seed) ==
    LET hidden == [i \in Range(num_layers - 2) |->
                      NewLinear(in_channels, hidden_channels, seed + i)]
    IN <<NewLinear(in_channels, hidden_channels, seed)>>
       \o hidden
       \o <<NewLinear(hidden_channels, 1, seed + 1)>>

\* faulty variant: fewer than two layers requested builds the single layer asked for
Pred_lins_single(in_channels, hidden_channels, num_layers, seed) ==
    IF num_layers < 2 THEN <<NewLinear(in_channels, 1, seed)>>
    ELSE LET hidden == [i \in Range(num_layers - 2) |->
                           NewLinear(hidden_channels, hidden_channels, seed + i)]
         IN <<NewLinear(in_channels, hidden_channels, seed)>>
            \o hidden
            \o <<NewLinear(hidden_channels, 1, seed + 1)>>

\* GCNLinkPredictor.__init__: self.lins
Pred_lins(in_channels, hidden_channels, num_layers, seed) ==
    LET hidden == [i \in Range(num_layers - 2) |->
                      NewLinear(hidden_channels, hidden_channels, seed + i)]
    IN <<NewLinear(in_channels, hidden_channels, seed)>>
       \o hidden
       \o <<NewLinear(hidden_channels, 1, seed + 1)>>

Pred_init(in_channels, hidden_channels, num_layers, dropout, seed) ==
    [lins |-> Pred_lins(in_channels, hidden_channels, num_layers, seed),
     dropout |-> dropout,
     training |-> TRUE]

\* nn.Linear.reset_parameters: new weight and bias values, same shape
Linear_reset(lin, seed) ==
    [lin EXCEPT !.weight = InitWeight(seed, lin.out_features, lin.in_features),
                !.bias = InitBias(seed, lin.out_features)]

Pred_reset(m, seed) ==
    [m EXCEPT !.lins = [i \in 1..Len(m.lins) |-> Linear_reset(m.lins[i], seed + i)]]

\* x = lin(x)
ApplyLinear(m, i, s) ==
    [x |-> Linear(m.lins[i], s.x), trace |-> Append(s.trace, <<"lin", i>>)]

\* x = F.relu(x)
ApplyRelu(s, i) == [x |-> Relu(s.x), trace |-> Append(s.trace, <<"relu", i>>)]

\* lp = torch.sigmoid(x)
ApplySigmoid(s) == [x |-> Sigmoid(s.x), trace |-> Append(s.trace, <<"sigmoid", 0>>)]

\* faulty variant: dropout before the nonlinearity
Pred_iter_dropout_before_relu(m, i, s, mseed) ==
    ApplyRelu(ApplyDropout(m, ApplyLinear(m, i, s), mseed, i), i)

\* the body of "for lin in self.lins[:-1]" for the i-th layer
Pred_iter(m, i, s, mseed) ==
    ApplyDropout(m, ApplyRelu(ApplyLinear(m, i, s), i), mseed, i)

\* the first i iterations of the loop of GCNLinkPredictor.forward
RECURSIVE Pred_loop(_, _, _, _)
Pred_loop(m, i, s, mseed) ==
    IF i = 0 THEN s ELSE Pred_iter(m, i, Pred_loop(m, i - 1, s, mseed), mseed)

\* faulty variant: the raw score is returned
Pred_tail_no_sigmoid(m, s) == ApplyLinear(m, Len(m.lins), s)

\* after the loop: self.lins[-1], then torch.sigmoid
Pred_tail(m, s) == ApplySigmoid(ApplyLinear(m, Len(m.lins), s))

\* GCNLinkPredictor.forward
Pred_forward_run(m, x_i, x_j, mseed) ==
    Pred_tail(m, Pred_loop(m, Len(m.lins) - 1, Start(Mul(x_i, x_j), <<(<<"mul", 0>>)>>), mseed))

\* ---------------------------------------------------------------- state machine
\* the module that the caller did not construct
NoModel == [layers |-> <<>>, dropout |-> <<0, 1>>, training |-> FALSE]
NoPred == [lins |-> <<>>, dropout |-> <<0, 1>>, training |-> FALSE]
NoArgs == <<>>

IsGCN == Len(gcn.layers) > 0
IsPred == Len(pred.lins) > 0

\* the record of a call of GCN.forward: its arguments, the mode it ran in,
\* the tensor it returned and the primitive calls it made
GCN_call(g, feats, training, r) ==
    <<[g |-> g, feats |-> feats, training |-> training, out |-> r.x, trace |-> r.trace]>>

\* the record of a call of GCNLinkPredictor.forward
Pred_call(x_i, x_j, training, r) ==
    <<[x_i |-> x_i, x_j |-> x_j, training |-> training, out |-> r.x, trace |-> r.trace]>>

\* what a call of forward on the module as it is now leaves as its record
GCN_next_call(g, feats, mseed) ==
    GCN_call(g, feats, gcn.training, GCN_forward_run(gcn, g, feats, mseed))
Pred_next_call(x_i, x_j, mseed) ==
    Pred_call(x_i, x_j, pred.training, Pred_forward_run(pred, x_i, x_j, mseed))

\* the caller constructs a GCN
InitGCN ==
    \E in_feats \in Widths, n_hidden \in Widths, out_feats \in Widths,
       num_layers \in LayerCounts, dropout \in Rates :
        /\ gcn = GCN_init(in_feats, n_hidden, out_feats, num_layers, dropout, InitSeed)
        /\ gcn_args = [in_feats |-> in_feats, n_hidden |-> n_hidden,
                       out_feats |-> out_feats, num_layers |-> num_layers,
                       dropout |-> dropout]
        /\ gcn_call = <<>>
        /\ pred = NoPred
        /\ pred_args = NoArgs
        /\ pred_call = <<>>

\* the caller constructs a GCNLinkPredictor
InitPred ==
    \E in_channels \in Widths, hidden_channels \in Widths,
       num_layers \in LayerCounts, dropout \in Rates :
        /\ pred = Pred_init(in_channels, hidden_channels, num_layers, dropout, InitSeed)
        /\ pred_args = [in_channels |-> in_channels, hidden_channels |-> hidden_channels,
                        num_layers |-> num_layers, dropout |-> dropout]
        /\ pred_call = <<>>
        /\ gcn = NoModel
        /\ gcn_args = NoArgs
        /\ gcn_call = <<>>

Init == InitGCN \/ InitPred

\* GCN.reset_parameters()
GCN_reset_parameters ==
    /\ IsGCN
    /\ \E seed \in Seeds : gcn' = GCN_reset(gcn, seed)
    /\ gcn_call' = <<>>
    /\ UNCHANGED <<gcn_args, pred, pred_args, pred_call>>

\* GCN.forward(g, feats) on a graph of n nodes and an n x in_feats matrix;
\* gcn_call keeps the arguments and the result of the latest call
GCN_forward ==
    /\ IsGCN
    /\ \E n \in RowCounts, shift \in Shifts, mseed \in MaskSeeds :
          LET g == Graph(shift, n)
              feats == InputTensor(shift, n, gcn.layers[1].in_feats)
          IN gcn_call' = GCN_next_call(g, feats, mseed)
    /\ UNCHANGED <<gcn, gcn_args, pred, pred_args, pred_call>>

\* nn.Module.train() / nn.Module.eval() on the GCN
GCN_train_mode ==
    /\ IsGCN
    /\ \E mode \in BOOLEAN : gcn' = [gcn EXCEPT !.training = mode]
    /\ UNCHANGED <<gcn_args, gcn_call, pred, pred_args, pred_call>>

\* GCNLinkPredictor.reset_parameters()
Pred_reset_parameters ==
    /\ IsPred
    /\ \E seed \in Seeds : pred' = Pred_reset(pred, seed)
    /\ pred_call' = <<>>
    /\ UNCHANGED <<pred_args, gcn, gcn_args, gcn_call>>

\* GCNLinkPredictor.forward(x_i, x_j) on two B x in_channels batches
Pred_forward ==
    /\ IsPred
    /\ \E B \in RowCounts, iseed \in InputSeeds, jseed \in InputSeeds, mseed \in MaskSeeds :
          LET x_i == InputTensor(iseed, B, pred.lins[1].in_features)
              x_j == InputTensor(jseed, B, pred.lins[1].in_features)
          IN pred_call' = Pred_next_call(x_i, x_j, mseed)
    /\ UNCHANGED <<pred, pred_args, gcn, gcn_args, gcn_call>>

\* nn.Module.train() / nn.Module.eval() on the GCNLinkPredictor
Pred_train_mode ==
    /\ IsPred
    /\ \E mode \in BOOLEAN : pred' = [pred EXCEPT !.training = mode]
    /\ UNCHANGED <<pred_args, pred_call, gcn, gcn_args, gcn_call>>

Next ==
    \/ GCN_reset_parameters
    \/ GCN_forward
    \/ GCN_train_mode
    \/ Pred_reset_parameters
    \/ Pred_forward
    \/ Pred_train_mode

Spec == Init /\ [][Next]_vars

\* ---------------------------------------------------------------- properties
Max(a, b) == IF a >= b THEN a ELSE b

\* the data of a tensor has the shape the tensor declares
WellShaped(t) ==
    /\ t.rows >= 0
    /\ Len(t.data) = t.rows
    /\ \A i \in 1..t.rows : Len(t.data[i]) = t.cols

\* the architecture of a module: everything but the weight values and the mode
GCN_arch(m) ==
    [layers |-> [i \in 1..Len(m.layers) |->
                    <<m.layers[i].in_feats, m.layers[i].out_feats, m.layers[i].activation>>],
     dropout |-> m.dropout]
Pred_arch(m) ==
    [lins |-> [i \in 1..Len(m.lins) |-> <<m.lins[i].in_features, m.lins[i].out_features>>],
     dropout |-> m.dropout]

GCN_constructed ==
    GCN_init(gcn_args.in_feats, gcn_args.n_hidden, gcn_args.out_feats,
             gcn_args.num_layers, gcn_args.dropout, InitSeed)
Pred_constructed ==
    Pred_init(pred_args.in_channels, pred_args.hidden_channels,
              pred_args.num_layers, pred_args.dropout, InitSeed)

\* C1: for num_layers >= 2 the GCN stack has exactly num_layers layers, the
\* first consuming in_feats and the last producing out_feats
C1_StackSize ==
    (IsGCN /\ gcn_args.num_layers >= 2) =>
        /\ Len(gcn.layers) = gcn_args.num_layers
        /\ gcn.layers[1].in_feats = gcn_args.in_feats
        /\ gcn.layers[Len(gcn.layers)].out_feats = gcn_args.out_feats

C1_Witness ==
    /\ IsGCN
    /\ gcn_args.num_layers = 3
    /\ Len(gcn.layers) = 3
    /\ gcn_args.in_feats # gcn_args.n_hidden
    /\ gcn_args.out_feats # gcn_args.n_hidden

\* C2: GCN.forward on an N x in_feats matrix returns an N x out_feats matrix
C2_ForwardShape ==
    gcn_call # <<>> =>
        /\ gcn_call[1].out.rows = gcn_call[1].feats.rows
        /\ gcn_call[1].out.cols = gcn_args.out_feats
        /\ WellShaped(gcn_call[1].out)

C2_Witness ==
    /\ gcn_call # <<>>
    /\ Len(gcn.layers) = 3
    /\ gcn_call[1].feats.rows = 2
    /\ gcn_call[1].feats.cols = gcn_args.in_feats
    /\ gcn_args.out_feats # gcn_args.n_hidden
    /\ gcn_args.in_feats # gcn_args.out_feats
    /\ gcn_call[1].out.rows = 2

\* C3: GCNLinkPredictor.forward on two B x in_channels batches returns a
\* B x 1 tensor whose entries all lie in [0, 1], whatever the mode
C3_ScoreRange ==
    pred_call # <<>> =>
        /\ pred_call[1].out.rows = pred_call[1].x_i.rows
        /\ pred_call[1].out.cols = 1
        /\ WellShaped(pred_call[1].out)
        /\ \A i \in 1..pred_call[1].out.rows :
              /\ pred_call[1].out.data[i][1] >= 0
              /\ pred_call[1].out.data[i][1] <= SigScale

C3_Witness ==
    /\ pred_call # <<>>
    /\ pred_call[1].training
    /\ pred.dropout[1] # 0
    /\ Len(pred.lins) = 3
    /\ pred_call[1].x_i.rows = 2
    /\ pred_args.in_channels = 2
    /\ pred_call[1].out.rows = 2
    /\ pred_call[1].out.data[1][1] # pred_call[1].out.data[2][1]

\* dropout is disabled for the recorded call
Pred_call_plain(c) == ~c[1].training \/ pred.dropout[1] = 0

\* C4: with dropout disabled and the weights unchanged, a call with the
\* arguments of the previous call swapped returns what the previous call returned
C4_Symmetric ==
    [][(/\ pred_call # <<>>
        /\ pred_call' # <<>>
        /\ pred' = pred
        /\ Pred_call_plain(pred_call)
        /\ Pred_call_plain(pred_call')
        /\ pred_call'[1].x_i = pred_call[1].x_j
        /\ pred_call'[1].x_j = pred_call[1].x_i)
       => pred_call'[1].out = pred_call[1].out]_vars

C4_Witness ==
    /\ pred_call # <<>>
    /\ ~pred.training
    /\ ~pred_call[1].training
    /\ pred.dropout[1] # 0
    /\ Len(pred.lins) = 3
    /\ pred_call[1].x_i # pred_call[1].x_j
    /\ pred_call[1].out.rows = 2
    /\ \E mseed \in MaskSeeds :
          Pred_next_call(pred_call[1].x_j, pred_call[1].x_i, mseed) # pred_call

\* C5: a forward call writes nothing of the module, and in inference mode a
\* call with the arguments of the previous call returns what it returned
C5_Idempotent ==
    [][/\ (gcn_call' # <<>> /\ gcn_call' # gcn_call) => gcn' = gcn
       /\ (/\ gcn_call # <<>>
           /\ gcn_call' # <<>>
           /\ gcn' = gcn
           /\ ~gcn_call[1].training
           /\ ~gcn_call'[1].training
           /\ gcn_call'[1].g = gcn_call[1].g
           /\ gcn_call'[1].feats = gcn_call[1].feats)
          => gcn_call'[1].out = gcn_call[1].out
       /\ (pred_call' # <<>> /\ pred_call' # pred_call) => pred' = pred
       /\ (/\ pred_call # <<>>
           /\ pred_call' # <<>>
           /\ pred' = pred
           /\ ~pred_call[1].training
           /\ ~pred_call'[1].training
           /\ pred_call'[1].x_i = pred_call[1].x_i
           /\ pred_call'[1].x_j = pred_call[1].x_j)
          => pred_call'[1].out = pred_call[1].out]_vars

C5_Witness ==
    /\ gcn_call # <<>>
    /\ ~gcn.training
    /\ ~gcn_call[1].training
    /\ gcn.dropout[1] # 0
    /\ Len(gcn.layers) = 3
    /\ gcn_call[1].out.rows = 2
    /\ \E mseed \in MaskSeeds :
          GCN_next_call(gcn_call[1].g, gcn_call[1].feats, mseed) = gcn_call

\* C6: the layer count, every layer's widths and activation, and the dropout
\* rate are those of the module as constructed
C6_ArchitectureFixed ==
    /\ IsGCN => GCN_arch(gcn) = GCN_arch(GCN_constructed)
    /\ IsPred => Pred_arch(pred) = Pred_arch(Pred_constructed)

C6_Witness ==
    /\ IsGCN
    /\ Len(gcn.layers) = 3
    /\ gcn.layers # GCN_constructed.layers
    /\ gcn_call # <<>>
    /\ ~gcn.training
    /\ gcn_call[1].training

\* C7: for num_layers >= 2 the predictor has num_layers linear layers:
\* in_channels -> hidden_channels, then hidden_channels -> hidden_channels,
\* then hidden_channels -> 1, each output width the next input width
C7_LinearStack ==
    (IsPred /\ pred_args.num_layers >= 2) =>
        /\ Len(pred.lins) = pred_args.num_layers
        /\ pred.lins[1].in_features = pred_args.in_channels
        /\ pred.lins[1].out_features = pred_args.hidden_channels
        /\ \A i \in 2..(Len(pred.lins) - 1) :
              /\ pred.lins[i].in_features = pred_args.hidden_channels
              /\ pred.lins[i].out_features = pred_args.hidden_channels
        /\ pred.lins[Len(pred.lins)].in_features = pred_args.hidden_channels
        /\ pred.lins[Len(pred.lins)].out_features = 1
        /\ \A i \in 1..(Len(pred.lins) - 1) :
              pred.lins[i].out_features = pred.lins[i + 1].in_features

C7_Witness ==
    /\ IsPred
    /\ pred_args.num_layers = 3
    /\ Len(pred.lins) = 3
    /\ pred_args.in_channels # pred_args.hidden_channels
    /\ pred_args.hidden_channels # 1

RECURSIVE GCN_expected(_, _)
GCN_expected(i, L) ==
    IF i > L THEN <<>>
    ELSE (IF i # 1 THEN <<(<<"dropout", i>>)>> ELSE <<>>)
         \o <<(<<"conv", i>>)>>
         \o (IF i # L THEN <<(<<"relu", i>>)>> ELSE <<>>)
         \o GCN_expected(i + 1, L)

\* C9: one GCN.forward applies the layers once each in stack order, dropout
\* before every layer but the first, ReLU after every layer but the last
C9_EncoderOrder ==
    gcn_call # <<>> => gcn_call[1].trace = GCN_expected(1, Len(gcn.layers))

C9_Witness ==
    /\ gcn_call # <<>>
    /\ Len(gcn.layers) = 3
    /\ Len(gcn_call[1].trace) = 7
    /\ gcn_call[1].training
    /\ gcn.dropout[1] # 0

\* the primitive calls the claim expects of iterations i..L-1 of the loop of
\* GCNLinkPredictor.forward and of what follows the loop
RECURSIVE Pred_expected(_, _)
Pred_expected(i, L) ==
    IF i >= L THEN <<(<<"lin", L>>), (<<"sigmoid", 0>>)>>
    ELSE <<(<<"lin", i>>), (<<"relu", i>>), (<<"dropout", i>>)>> \o Pred_expected(i + 1, L)

\* C10: one GCNLinkPredictor.forward forms the product, then runs linear,
\* ReLU, dropout for each layer but the last, then the last linear layer
\* alone, then sigmoid once as its final step
C10_ScorerOrder ==
    pred_call # <<>> =>
        pred_call[1].trace = <<(<<"mul", 0>>)>> \o Pred_expected(1, Len(pred.lins))

C10_Witness ==
    /\ pred_call # <<>>
    /\ Len(pred.lins) = 3
    /\ Len(pred_call[1].trace) = 9
    /\ pred_call[1].training
    /\ pred.dropout[1] # 0

====
